---- MODULE Spec2Model ----
(***************************************************************************)
(* Model of the llm-therapist batch pipeline: the relational store         *)
(* (src/src/database.py), the adapters (reddit_scraper, llm_interface,     *)
(* text_analyzer) and the orchestrator run_pipeline (src/src/pipeline.py). *)
(*                                                                         *)
(* Texts are sequences of one-character strings.  An optional value        *)
(* (Python None / a value) is the empty sequence / a one-element sequence. *)
(* A table is a function from the keys that have a row to the row.         *)
(***************************************************************************)
EXTENDS Integers, Sequences, FiniteSets, TLC

\* ------------------------------------------------------------------ bounds
\* number of consecutive executions of run_pipeline that are explored
MaxRuns == 2

\* length of the completions the classifier is called with directly
MaxLen == 4

\* comments of a submission when get_top_comments is called directly
MaxComments == 3

\* submissions of the listing when get_subreddit_posts is called directly
MaxListing == 4

\* ------------------------------------------------------- value universes
PostIds == {"A", "B", "C"}
\* contents of a submission (url, title, selftext, created_utc) as a version
Versions == {1, 2}
\* comment numbers within one submission; a comment id is <<post, number>>
CommentNos == {1, 2}
Scores == {1, 2}
Bodies == {<<>>, <<"b">>}
\* raw completions the generator may return (before .strip())
RawContents == {<<>>, <<" ">>, <<"x">>, <<" ", "y", " ">>}
\* raw cosine values in tenths, some outside [0, 10]
CosValues == {-1, 4, 11}
Runs == {1, 2}

None == <<>>
Some(v) == <<v>>
Truthy(s) == s # <<>>

\* ------------------------------------------------------------ text helpers
IsSpace(ch) == ch \in {" ", "\t", "\n"}

RECURSIVE lstrip(_)
lstrip(s) == IF s = <<>> THEN <<>>
             ELSE IF IsSpace(Head(s)) THEN lstrip(Tail(s)) ELSE s

RECURSIVE rstrip(_)
rstrip(s) == IF s = <<>> THEN <<>>
             ELSE IF IsSpace(s[Len(s)]) THEN rstrip(SubSeq(s, 1, Len(s) - 1)) ELSE s

strip(s) == rstrip(lstrip(s))

Min(a, b) == IF a < b THEN a ELSE b
Max(a, b) == IF a > b THEN a ELSE b

\* ------------------------------------------------------------------ store
\* database.py: the three tables.  dberr is the outcome "the statement
\* raised sqlite3.Error (other than a constraint violation)".  The columns
\* with DEFAULT CURRENT_TIMESTAMP are left out: no statement reads them.

PostRow(data) == [ver |-> data.ver]

\* variants of the statements with a plausible slip, used to show that the
\* properties below depend on the statements as written
check_post_processed_never(pp, post_id, dberr) == FALSE

check_post_processed_failopen(pp, post_id, dberr) ==
    IF dberr THEN TRUE ELSE post_id \in DOMAIN pp

check_post_processed(pp, post_id, dberr) ==
    IF dberr THEN FALSE ELSE post_id \in DOMAIN pp

\* ON CONFLICT(post_id) DO UPDATE instead of DO NOTHING
insert_processed_post_replace(pp, data, dberr) ==
    IF dberr THEN [table |-> pp, out |-> "error"]
    ELSE [table |-> (data.post_id :> PostRow(data)) @@ pp,
          out |-> IF data.post_id \in DOMAIN pp THEN "exists" ELSE "ok"]

\* INSERT ... ON CONFLICT(post_id) DO NOTHING; every sqlite3.Error is logged
\* and swallowed
insert_processed_post(pp, data, dberr) ==
    IF dberr THEN [table |-> pp, out |-> "error"]
    ELSE IF data.post_id \in DOMAIN pp THEN [table |-> pp, out |-> "exists"]
    ELSE [table |-> (data.post_id :> PostRow(data)) @@ pp, out |-> "ok"]

\* without PRAGMA foreign_keys = ON
insert_llm_data_nofk(pp, ld, post_id, input_prompt, llm_response, dberr) ==
    IF dberr THEN [table |-> ld, out |-> "error"]
    ELSE [table |-> (post_id :> [input_prompt |-> input_prompt,
                                 llm_response |-> llm_response]) @@ ld,
          out |-> "ok"]

\* ON CONFLICT(post_id) DO NOTHING instead of DO UPDATE
insert_llm_data_keep(pp, ld, post_id, input_prompt, llm_response, dberr) ==
    IF dberr THEN [table |-> ld, out |-> "error"]
    ELSE IF post_id \notin DOMAIN pp THEN [table |-> ld, out |-> "integrity"]
    ELSE IF post_id \in DOMAIN ld THEN [table |-> ld, out |-> "ok"]
    ELSE [table |-> (post_id :> [input_prompt |-> input_prompt,
                                 llm_response |-> llm_response]) @@ ld,
          out |-> "ok"]

\* INSERT ... ON CONFLICT(post_id) DO UPDATE; FOREIGN KEY (post_id)
\* REFERENCES processed_posts(post_id) with PRAGMA foreign_keys = ON
insert_llm_data(pp, ld, post_id, input_prompt, llm_response, dberr) ==
    IF dberr THEN [table |-> ld, out |-> "error"]
    ELSE IF post_id \notin DOMAIN pp THEN [table |-> ld, out |-> "integrity"]
    ELSE [table |-> (post_id :> [input_prompt |-> input_prompt,
                                 llm_response |-> llm_response]) @@ ld,
          out |-> "ok"]

\* INSERT OR REPLACE instead of the column list of DO UPDATE SET
insert_post_comment_replace(pp, pcm, cd, dberr) ==
    IF dberr THEN [table |-> pcm, out |-> "error"]
    ELSE IF cd.post_id \notin DOMAIN pp THEN [table |-> pcm, out |-> "integrity"]
    ELSE [table |-> (cd.comment_id :> [post_id |-> cd.post_id,
                                       comment_body |-> cd.comment_body,
                                       comment_score |-> cd.comment_score,
                                       comment_rank |-> cd.comment_rank,
                                       is_actual_advice |-> cd.is_actual_advice,
                                       similarity_score |-> cd.similarity_score]) @@ pcm,
          out |-> "ok"]

\* INSERT ... ON CONFLICT(comment_id) DO UPDATE SET comment_score,
\* is_actual_advice, similarity_score, fetched_at
insert_post_comment(pp, pcm, cd, dberr) ==
    IF dberr THEN [table |-> pcm, out |-> "error"]
    ELSE IF cd.comment_id \in DOMAIN pcm
    THEN [table |-> [pcm EXCEPT ![cd.comment_id] =
                        [@ EXCEPT !.comment_score = cd.comment_score,
                                  !.is_actual_advice = cd.is_actual_advice,
                                  !.similarity_score = cd.similarity_score]],
          out |-> "ok"]
    ELSE IF cd.post_id \notin DOMAIN pp THEN [table |-> pcm, out |-> "integrity"]
    ELSE [table |-> (cd.comment_id :> [post_id |-> cd.post_id,
                                       comment_body |-> cd.comment_body,
                                       comment_score |-> cd.comment_score,
                                       comment_rank |-> cd.comment_rank,
                                       is_actual_advice |-> cd.is_actual_advice,
                                       similarity_score |-> cd.similarity_score]) @@ pcm,
          out |-> "ok"]

\* --------------------------------------------------------------- adapters
\* reddit_scraper.py
MAX_COMMENTS_TO_FETCH == 5
\* recency window of get_subreddit_posts, in hours
RecencyWindow == 24

Deleted == <<"[deleted]">>
Removed == <<"[removed]">>

Take(s, n) == SubSeq(s, 1, Min(n, Len(s)))

RECURSIVE SelectSeqBy(_, _)
\* the elements of s whose index is in keep, in order
SelectSeqBy(s, keep) ==
    IF s = <<>> THEN <<>>
    ELSE LET rest == SelectSeqBy(SubSeq(s, 1, Len(s) - 1), keep)
         IN IF Len(s) \in keep THEN Append(rest, s[Len(s)]) ELSE rest

\* the filter of get_top_comments (lines 63-67)
IsCandidate(comment) ==
    /\ ~comment.stickied
    /\ comment.author # None
    /\ comment.body \notin {Deleted, Removed}
    /\ comment.distinguished \notin {Some("moderator"), Some("admin")}

RECURSIVE InsertByScore_unstable(_, _)
\* insert c before the elements of equal score
InsertByScore_unstable(sorted, c) ==
    IF sorted = <<>> THEN <<c>>
    ELSE IF Head(sorted).score > c.score
         THEN <<Head(sorted)>> \o InsertByScore_unstable(Tail(sorted), c)
         ELSE <<c>> \o sorted

RECURSIVE InsertByScore(_, _)
\* insert c behind every element whose score is >= c.score
InsertByScore(sorted, c) ==
    IF sorted = <<>> THEN <<c>>
    ELSE IF Head(sorted).score >= c.score
         THEN <<Head(sorted)>> \o InsertByScore(Tail(sorted), c)
         ELSE <<c>> \o sorted

RECURSIVE SortByScoreDesc(_)
\* list.sort(key=score, reverse=True): stable, descending
SortByScoreDesc(s) ==
    IF s = <<>> THEN <<>>
    ELSE InsertByScore(SortByScoreDesc(SubSeq(s, 1, Len(s) - 1)), s[Len(s)])

RECURSIVE CommentsList(_)
\* submission.comments.list() (line 61): the comment forest flattened
\* breadth-first, replies of every depth included
CommentsList(queue) ==
    IF queue = <<>> THEN <<>>
    ELSE <<Head(queue)>> \o CommentsList(Tail(queue) \o Head(queue).replies)

\* comments: what submission.comments.list() yields; failed: the fetch raised
get_top_comments(comments, limit, failed) ==
    IF failed THEN <<>>
    ELSE LET candidate_comments ==
                 SelectSeqBy(comments, {i \in 1..Len(comments) : IsCandidate(comments[i])})
         IN Take(SortByScoreDesc(candidate_comments), limit)

\* only `limit` submissions requested from the listing
get_subreddit_posts_narrow(all_posts, limit, t, failed) ==
    IF failed THEN <<>>
    ELSE LET fetched == Take(all_posts, limit)
             recent == SelectSeqBy(fetched,
                          {i \in 1..Len(fetched) : fetched[i].created_utc >= t - RecencyWindow})
         IN Take(recent, limit)

\* all_posts: the listing subreddit.new() yields (newest first); t: time.time()
get_subreddit_posts(all_posts, limit, t, failed) ==
    IF failed THEN <<>>
    ELSE LET fetched == Take(all_posts, limit * 3)
             recent == SelectSeqBy(fetched,
                          {i \in 1..Len(fetched) : fetched[i].created_utc >= t - RecencyWindow})
         IN Take(recent, limit)

extract_post_data(submission, ver) == [post_id |-> submission.id, ver |-> ver]

\* llm_interface.py.  api is the outcome of client.chat.completions.create:
\* [kind |-> "ok", content |-> text] or kind "timeout" / "api_error" / "error"
ApiFailures == {[kind |-> k, content |-> <<>>] : k \in {"timeout", "api_error", "error"}}

\* the prompt is the template filled with title and body
Prompt(data) == <<"advice-prompt", data.ver>>

get_llm_response(client, data, api) ==
    IF ~client THEN None
    ELSE IF api.kind = "ok"
         THEN Some([prompt |-> Prompt(data), response |-> strip(api.content)])
         ELSE None

LowerMap == [c \in {"S", "I", "M", "N", "A", "O"} |->
               CASE c = "S" -> "s" [] c = "I" -> "i" [] c = "M" -> "m"
                 [] c = "N" -> "n" [] c = "A" -> "a" [] c = "O" -> "o"]
lower_ch(ch) == IF ch \in DOMAIN LowerMap THEN LowerMap[ch]
                ELSE IF ch = "A~" THEN "a~" ELSE ch
lower(s) == [i \in 1..Len(s) |-> lower_ch(s[i])]

startswith(s, prefix) ==
    /\ Len(s) >= Len(prefix)
    /\ SubSeq(s, 1, Len(prefix)) = prefix

\* "a~" stands for the accented letter of the negative marker
Sim == <<"s", "i", "m">>
NaoAccented == <<"n", "a~", "o">>
Nao == <<"n", "a", "o">>

\* only the accented negative marker recognised
verify_comment_advice_accented(client, api) ==
    IF ~client THEN None
    ELSE IF api.kind # "ok" THEN None
    ELSE LET verification_answer == lower(strip(api.content))
         IN IF startswith(verification_answer, Sim) THEN Some(TRUE)
            ELSE IF startswith(verification_answer, NaoAccented) THEN Some(FALSE)
            ELSE None

verify_comment_advice(client, api) ==
    IF ~client THEN None
    ELSE IF api.kind # "ok" THEN None
    ELSE LET verification_answer == lower(strip(api.content))
         IN IF startswith(verification_answer, Sim) THEN Some(TRUE)
            ELSE IF startswith(verification_answer, NaoAccented)
                    \/ startswith(verification_answer, Nao) THEN Some(FALSE)
            ELSE None

\* text_analyzer.py.  enc is the outcome of encode + pytorch_cos_sim:
\* [kind |-> "ok", cos |-> tenths] or kind "error"
calculate_similarity(similarity_model, text1, text2, enc) ==
    IF ~similarity_model THEN None
    ELSE IF ~Truthy(text1) \/ ~Truthy(text2) THEN Some(0)
    ELSE IF enc.kind # "ok" THEN None
    ELSE Some(Max(0, Min(10, enc.cos)))

\* ---------------------------------------------- outcomes of external calls
GeneratorApis == {[kind |-> "ok", content |-> c] : c \in RawContents} \cup ApiFailures
ClassifierContents == {<<"S", "i", "m">>, <<" ", "n", "a~", "o", ".">>,
                       <<"N", "A", "O">>, <<"t", "a", "l", "v", "e", "z">>, <<>>}
ClassifierApis == {[kind |-> "ok", content |-> c] : c \in ClassifierContents} \cup ApiFailures
Encodings == {[kind |-> "ok", cos |-> v] : v \in CosValues} \cup {[kind |-> "error", cos |-> 0]}

\* ------------------------------------------------------------------ state
VARIABLES
    processed_posts,   \* table processed_posts: post_id -> row
    llm_data,          \* table llm_data: post_id -> row
    post_comments,     \* table post_comments: comment_id -> row
    clock,             \* the number of executions started so far
    env,               \* what the environment of the executions may do
    run,               \* per execution: the locals of run_pipeline
    obs,               \* per execution: what it has done (history)
    advised,           \* the posts some execution has obtained advice for (history)
    ev,                \* the last store statement and its outcome (history)
    call,              \* the last direct call of an adapter function
    basis              \* comment_id -> the text its stored similarity_score was
                       \* computed against (history, kept when env.history)

vars == <<processed_posts, llm_data, post_comments, clock, env, run, obs, advised, ev,
          call, basis>>
store == <<processed_posts, llm_data, post_comments>>

\* what an execution has done for a post: visited it, missed its row because
\* the check hit a storage error ("rerr"), skipped it, counted it failed or
\* processed, caught an exception, taken the longer delay, called the
\* generator (with which result), fetched comments, called the classifier,
\* (which gave no verdict: "unknown"), called the scorer (which gave no
\* score), attempted a write
Tags == {"visit", "rerr", "skip", "fail", "proc", "raise", "longdelay", "gen",
         "genok", "genfail", "fetch", "verify", "unknown", "score", "noscore",
         "wpost", "wadvice", "wcomment"}

\* op: the statement; out: "ok", "exists" (conflict, nothing done),
\* "integrity" (constraint violation) or "error"; parent: the post row was
\* there before the statement; existed: the written key had a row before;
\* changed: the table differs after it; cd: the record the statement carried
NoEvent == [op |-> "none", run |-> 0, post |-> "", out |-> "", parent |-> FALSE,
            existed |-> FALSE, changed |-> FALSE, cd |-> None]
Event(op, r, p, out, parent, existed, changed, cd) ==
    [op |-> op, run |-> r, post |-> p, out |-> out, parent |-> parent,
     existed |-> existed, changed |-> changed, cd |-> cd]

\* fn: the function called, with the arguments and outcomes of the call;
\* done: it has returned; result: what it returned
NoCall == [fn |-> "none"]

IdleRun == [pc |-> "idle", conn |-> "none", posts |-> <<>>, idx |-> 0,
            processed_count |-> 0, skipped_count |-> 0, error_count |-> 0,
            post_data |-> None, llm_op_result |-> None, top_comments |-> <<>>,
            rank |-> 0, is_actual_advice |-> None, similarity_score |-> None,
            reported |-> FALSE, interrupted |-> FALSE]

\* init: the outcome of the initialization; listed: the post listing was
\* requested; top: the ids get_top_comments returned for a post; ups: the
\* <<comment id, rank>> of the comment upserts issued for a post; scored: the
\* ranks of the comments the scorer was called for
NoObs == [tags |-> [p \in PostIds |-> {}],
          store0 |-> [pp |-> <<>>, ld |-> <<>>, pcm |-> <<>>],
          init |-> "none", listed |-> FALSE,
          top |-> [p \in PostIds |-> <<>>],
          ups |-> [p \in PostIds |-> {}],
          scored |-> [p \in PostIds |-> {}],
          offered |-> [p \in PostIds |-> None],
          slept |-> [p \in PostIds |-> FALSE],
          pending |-> FALSE, b2b |-> FALSE,
          zero |-> {}]

\* the submission the loop is at, and its id
Submission(r) == run[r].posts[run[r].idx]
post_id(r) == Submission(r).id

Tag(r, p, new) == [obs EXCEPT ![r].tags[p] = @ \cup new]

\* the rate-limited calls of the loop that no delay follows
SleepAfter_generative(kind) == kind \in {"advice", "verify"}

\* lines 64, 85 and 108: the time.sleep right after each rate-limited call
SleepAfter(kind) == kind \in {"advice", "fetch", "verify"}

\* the pacing history of one step on post p: it issues the rate-limited call
\* `kind` (or "none"), then sleeps if a delay follows that call or if the
\* step takes another delay (`more`); pending = a call no delay has followed
\* yet, b2b = a call issued while one was pending
Pace(o, r, p, kind, more) ==
    LET called == kind # "none"
        slept == (called /\ SleepAfter(kind)) \/ more
    IN [o EXCEPT ![r].b2b = @ \/ (called /\ o[r].pending),
                 ![r].pending = IF slept THEN FALSE ELSE (@ \/ called),
                 ![r].slept[p] = @ \/ slept]

\* the prompt passed where the advice belongs
AdviceText_prompt(r) == run[r].llm_op_result[1].prompt

\* line 67: main_llm_advice_response, while the loop is at the post
AdviceText(r) == run[r].llm_op_result[1].response

\* the locals at the top of the next loop iteration
NextPost(rec) == [rec EXCEPT !.pc = "check", !.idx = @ + 1,
                             !.post_data = None, !.llm_op_result = None,
                             !.top_comments = <<>>, !.rank = 0,
                             !.is_actual_advice = None, !.similarity_score = None]

\* the write outcomes the environment allows
WriteErrs == env.writeErrs

\* the handler leaving the loop instead of going on
except_Exception_break(rec) ==
    [rec EXCEPT !.pc = "done", !.conn = "closed", !.reported = TRUE,
                !.error_count = @ + 1]

\* lines 150-153: an exception caught at the post boundary
except_Exception(rec) == [rec EXCEPT !.pc = "errDelay", !.error_count = @ + 1]

\* the similarity computed for every comment
ShouldScore_every(rank, main_llm_advice_response) ==
    Truthy(main_llm_advice_response)

\* line 114: the similarity is computed for the first comment only, and only
\* if the advice text is not empty
ShouldScore(rank, main_llm_advice_response) ==
    rank = 1 /\ Truthy(main_llm_advice_response)

\* ----------------------------------------------------------- run_pipeline
InitOutcomes == {"ok", "reddit", "connect", "tables", "client", "model"}

\* the execution going on after a failed initialization
StartRun_continues(r) ==
    /\ r \in env.runs
    /\ run[r].pc \in {"idle", "done", "aborted"}
    /\ clock < MaxRuns
    /\ clock' = clock + 1
    /\ \E outcome \in env.inits :
         /\ run' = [run EXCEPT ![r] =
                      IF outcome = "ok"
                      THEN [IdleRun EXCEPT !.pc = "fetch", !.conn = "open"]
                      ELSE [IdleRun EXCEPT !.pc = "fetch",
                               !.conn = IF outcome \in {"reddit", "connect"}
                                        THEN "none" ELSE "closed"]]
         /\ obs' = [obs EXCEPT ![r] = [NoObs EXCEPT
                       !.store0 = [pp |-> processed_posts, ld |-> llm_data,
                                   pcm |-> post_comments],
                       !.init = outcome,
                       !.zero = obs[r].zero]]
    /\ ev' = NoEvent
    /\ UNCHANGED <<call, store, env, advised, basis>>

\* lines 14-29: initialization; a failure is fatal to the execution
StartRun(r) ==
    /\ r \in env.runs
    /\ run[r].pc \in {"idle", "done", "aborted"}
    /\ clock < MaxRuns
    /\ clock' = clock + 1
    /\ \E outcome \in env.inits :
         /\ run' = [run EXCEPT ![r] =
                      IF outcome = "ok"
                      THEN [IdleRun EXCEPT !.pc = "fetch", !.conn = "open"]
                      ELSE [IdleRun EXCEPT !.pc = "done",
                               !.conn = IF outcome \in {"reddit", "connect"}
                                        THEN "none" ELSE "closed"]]
         /\ obs' = [obs EXCEPT ![r] = [NoObs EXCEPT
                       !.store0 = [pp |-> processed_posts, ld |-> llm_data,
                                   pcm |-> post_comments],
                       !.init = outcome,
                       !.zero = obs[r].zero]]
    /\ ev' = NoEvent
    /\ UNCHANGED <<call, store, env, advised, basis>>

\* lines 31-36
FetchPosts(r) ==
    /\ run[r].pc = "fetch"
    /\ \E all_posts \in env.listings, failed \in env.listErrs :
         LET posts == get_subreddit_posts(all_posts, env.POST_LIMIT, env.now, failed)
         IN run' = [run EXCEPT ![r] =
                      IF posts = <<>>
                      THEN [@ EXCEPT !.pc = "done", !.conn = "closed"]
                      ELSE [@ EXCEPT !.pc = "check", !.posts = posts, !.idx = 1]]
    /\ obs' = [obs EXCEPT ![r].listed = TRUE]
    /\ ev' = NoEvent
    /\ UNCHANGED <<call, store, clock, env, advised, basis>>

\* lines 48-59: the processed check and the extraction of the post data
CheckProcessed(r) ==
    /\ run[r].pc = "check"
    /\ run[r].idx <= Len(run[r].posts)
    /\ \E dberr \in env.readErrs, raised \in env.raises, ver \in env.versions :
         LET p == post_id(r)
             found == check_post_processed(processed_posts, p, dberr)
             seen == {"visit"} \cup (IF dberr /\ p \in DOMAIN processed_posts
                                      THEN {"rerr"} ELSE {})
         IN /\ ev' = Event("check", r, p, IF dberr THEN "error" ELSE "ok",
                          p \in DOMAIN processed_posts, p \in DOMAIN processed_posts,
                          FALSE, None)
            /\ IF found
               THEN /\ run' = [run EXCEPT ![r] =
                                 NextPost([@ EXCEPT !.skipped_count = @ + 1])]
                    /\ obs' = Tag(r, p, seen \cup {"skip"})
               ELSE IF raised
               THEN /\ run' = [run EXCEPT ![r] = except_Exception(@)]
                    /\ obs' = Tag(r, p, seen \cup {"raise", "fail"})
               ELSE /\ run' = [run EXCEPT ![r] =
                                 [@ EXCEPT !.pc = "advise",
                                    !.post_data = Some(extract_post_data(Submission(r), ver))]]
                    /\ obs' = Tag(r, p, seen)
    /\ UNCHANGED <<call, store, clock, env, advised, basis>>

\* lines 63-64: the advice call
GetAdvice(r) ==
    /\ run[r].pc = "advise"
    /\ \E api \in env.generator :
         LET p == post_id(r)
             result == get_llm_response(TRUE, run[r].post_data[1], api)
         IN /\ p \in env.genFail => api.kind # "ok"
            /\ p \in env.genOk => api.kind = "ok"
            /\ run' = [run EXCEPT ![r] = [@ EXCEPT !.pc = "advised",
                                                   !.llm_op_result = result]]
            /\ obs' = Pace(Tag(r, p, {"gen", IF Truthy(result) THEN "genok"
                                                                  ELSE "genfail"}),
                            r, p, "advice", FALSE)
            /\ advised' = IF Truthy(result) THEN advised \cup {p} ELSE advised
    /\ ev' = NoEvent
    /\ UNCHANGED <<call, store, clock, env, basis>>

\* the post row written although the advice call failed (the alternative the
\* comment of line 76 weighs)
AfterAdvice_stores(r) ==
    /\ run[r].pc = "advised"
    /\ \E dberr \in WriteErrs :
         LET p == post_id(r)
             w == insert_processed_post(processed_posts, run[r].post_data[1], dberr)
         IN IF Truthy(run[r].llm_op_result)
            THEN /\ processed_posts' = w.table
                 /\ run' = [run EXCEPT ![r] = [@ EXCEPT !.pc = "storeAdvice"]]
                 /\ obs' = Tag(r, p, {"wpost"})
                 /\ ev' = Event("post", r, p, w.out, p \in DOMAIN processed_posts,
                                 p \in DOMAIN processed_posts,
                                 w.table # processed_posts,
                                 Some(PostRow(run[r].post_data[1])))
            ELSE /\ processed_posts' = w.table
                 /\ run' = [run EXCEPT ![r] = NextPost([@ EXCEPT !.error_count = @ + 1])]
                 /\ obs' = Pace(Tag(r, p, {"fail"}), r, p, "none", TRUE)
                 /\ ev' = NoEvent
    /\ UNCHANGED <<call, llm_data, post_comments, clock, env, advised, basis>>

\* lines 66-80: on success the post row is written, else the post has failed
AfterAdvice(r) ==
    /\ run[r].pc = "advised"
    /\ \E dberr \in WriteErrs :
         LET p == post_id(r)
             w == insert_processed_post(processed_posts, run[r].post_data[1], dberr)
         IN IF Truthy(run[r].llm_op_result)
            THEN /\ processed_posts' = w.table
                 /\ run' = [run EXCEPT ![r] = [@ EXCEPT !.pc = "storeAdvice"]]
                 /\ obs' = Tag(r, p, {"wpost"})
                 /\ ev' = Event("post", r, p, w.out, p \in DOMAIN processed_posts,
                                 p \in DOMAIN processed_posts,
                                 w.table # processed_posts,
                                 Some(PostRow(run[r].post_data[1])))
            ELSE /\ processed_posts' = processed_posts
                 /\ run' = [run EXCEPT ![r] = NextPost([@ EXCEPT !.error_count = @ + 1])]
                 /\ obs' = Pace(Tag(r, p, {"fail"}), r, p, "none", TRUE)
                 /\ ev' = NoEvent
    /\ UNCHANGED <<call, llm_data, post_comments, clock, env, advised, basis>>

\* line 72
StoreAdvice(r) ==
    /\ run[r].pc = "storeAdvice"
    /\ \E dberr \in WriteErrs :
         LET p == post_id(r)
             res == run[r].llm_op_result[1]
             w == insert_llm_data(processed_posts, llm_data, p, res.prompt,
                                  res.response, dberr)
         IN /\ llm_data' = w.table
            /\ obs' = [Tag(r, p, {"wadvice"}) EXCEPT ![r].offered[p] =
                          IF env.history THEN Some(res.response) ELSE @]
            /\ ev' = Event("advice", r, p, w.out, p \in DOMAIN processed_posts,
                            p \in DOMAIN llm_data, w.table # llm_data,
                            Some([input_prompt |-> res.prompt,
                                  llm_response |-> res.response]))
    /\ run' = [run EXCEPT ![r] = [@ EXCEPT !.pc = "fetchComments"]]
    /\ UNCHANGED <<call, processed_posts, post_comments, clock, env, advised, basis>>

\* a post without suitable comments counted as failed
GetTopComments_failed(r) ==
    /\ run[r].pc = "fetchComments"
    /\ LET p == post_id(r)
       IN /\ \E top \in {get_top_comments(f, MAX_COMMENTS_TO_FETCH, failed) :
                            f \in env.forests[p], failed \in env.fetchErrs} :
               run' = [run EXCEPT ![r] =
                         IF top = <<>>
                         THEN NextPost([@ EXCEPT !.error_count = @ + 1])
                         ELSE [@ EXCEPT !.pc = "verify", !.top_comments = top, !.rank = 1]]
          /\ obs' = Pace([Tag(r, p, {"fetch"} \cup
                                 (IF run'[r].pc = "check" THEN {"fail"} ELSE {}))
                             EXCEPT ![r].top[p] =
                                 [i \in 1..Len(run'[r].top_comments) |->
                                     run'[r].top_comments[i].id],
                                    ![r].zero = IF run'[r].pc = "check" /\ env.history
                                                THEN @ \cup {p} ELSE @],
                          r, p, "fetch", run'[r].pc = "check")
    /\ ev' = NoEvent
    /\ UNCHANGED <<call, store, clock, env, advised, basis>>

\* lines 84-93
GetTopComments(r) ==
    /\ run[r].pc = "fetchComments"
    /\ LET p == post_id(r)
       IN /\ \E top \in {get_top_comments(f, MAX_COMMENTS_TO_FETCH, failed) :
                            f \in env.forests[p], failed \in env.fetchErrs} :
               run' = [run EXCEPT ![r] =
                         IF top = <<>>
                         THEN NextPost([@ EXCEPT !.processed_count = @ + 1])
                         ELSE [@ EXCEPT !.pc = "verify", !.top_comments = top, !.rank = 1]]
          /\ obs' = Pace([Tag(r, p, {"fetch"} \cup
                                 (IF run'[r].pc = "check" THEN {"proc"} ELSE {}))
                             EXCEPT ![r].top[p] =
                                 [i \in 1..Len(run'[r].top_comments) |->
                                     run'[r].top_comments[i].id],
                                    ![r].zero = IF run'[r].pc = "check" /\ env.history
                                                THEN @ \cup {p} ELSE @],
                          r, p, "fetch", run'[r].pc = "check")
    /\ ev' = NoEvent
    /\ UNCHANGED <<call, store, clock, env, advised, basis>>

\* a comment without a verdict treated like a raised exception
VerifyComment_strict(r) ==
    /\ run[r].pc = "verify"
    /\ LET p == post_id(r)
           comment == run[r].top_comments[run[r].rank]
           main_llm_advice_response == AdviceText(r)
           scored == ShouldScore(run[r].rank, main_llm_advice_response)
       IN \E raised \in env.raises,
             verdict \in {verify_comment_advice(TRUE, api) : api \in env.classifier},
             score \in IF scored
                       THEN {calculate_similarity(TRUE, comment.body,
                                                  main_llm_advice_response, enc) :
                               enc \in env.encodings}
                       ELSE {None} :
            IF raised \/ verdict = None
            THEN /\ run' = [run EXCEPT ![r] = except_Exception(@)]
                 /\ obs' = Pace(Tag(r, p, {"fail"} \cup
                               (IF raised THEN {"raise"} ELSE {"unknown"})),
                                 r, p, IF raised THEN "none" ELSE "verify", FALSE)
            ELSE /\ run' = [run EXCEPT ![r] =
                              [@ EXCEPT !.pc = "storeComment",
                                        !.is_actual_advice = verdict,
                                        !.similarity_score = score]]
                 /\ obs' = Pace([Tag(r, p, {"verify"}
                                \cup (IF verdict = None THEN {"unknown"} ELSE {})
                                \cup (IF scored THEN {"score"} ELSE {})
                                \cup (IF scored /\ score = None THEN {"noscore"} ELSE {}))
                            EXCEPT ![r].scored[p] =
                                IF scored THEN @ \cup {run[r].rank} ELSE @],
                                 r, p, "verify", FALSE)
    /\ ev' = NoEvent
    /\ UNCHANGED <<call, store, clock, env, advised, basis>>

\* lines 98-121: classification and, for rank 1, similarity
VerifyComment(r) ==
    /\ run[r].pc = "verify"
    /\ LET p == post_id(r)
           comment == run[r].top_comments[run[r].rank]
           main_llm_advice_response == AdviceText(r)
           scored == ShouldScore(run[r].rank, main_llm_advice_response)
       IN \E raised \in env.raises,
             verdict \in {verify_comment_advice(TRUE, api) : api \in env.classifier},
             score \in IF scored
                       THEN {calculate_similarity(TRUE, comment.body,
                                                  main_llm_advice_response, enc) :
                               enc \in env.encodings}
                       ELSE {None} :
            IF raised
            THEN /\ run' = [run EXCEPT ![r] = except_Exception(@)]
                 /\ obs' = Tag(r, p, {"raise", "fail"})
            ELSE /\ run' = [run EXCEPT ![r] =
                              [@ EXCEPT !.pc = "storeComment",
                                        !.is_actual_advice = verdict,
                                        !.similarity_score = score]]
                 /\ obs' = Pace([Tag(r, p, {"verify"}
                                \cup (IF verdict = None THEN {"unknown"} ELSE {})
                                \cup (IF scored THEN {"score"} ELSE {})
                                \cup (IF scored /\ score = None THEN {"noscore"} ELSE {}))
                            EXCEPT ![r].scored[p] =
                                IF scored THEN @ \cup {run[r].rank} ELSE @],
                                 r, p, "verify", FALSE)
    /\ ev' = NoEvent
    /\ UNCHANGED <<call, store, clock, env, advised, basis>>

\* every comment stored as the first of its post
comment_data_first(r) ==
    LET comment == run[r].top_comments[run[r].rank]
    IN [post_id |-> post_id(r), comment_id |-> comment.id,
        comment_body |-> comment.body, comment_score |-> comment.score,
        comment_rank |-> 1,
        is_actual_advice |-> run[r].is_actual_advice,
        similarity_score |-> run[r].similarity_score]

\* the record of lines 124-132
comment_data(r) ==
    LET comment == run[r].top_comments[run[r].rank]
    IN [post_id |-> post_id(r), comment_id |-> comment.id,
        comment_body |-> comment.body, comment_score |-> comment.score,
        comment_rank |-> run[r].rank,
        is_actual_advice |-> run[r].is_actual_advice,
        similarity_score |-> run[r].similarity_score]

\* lines 123-134
StoreComment(r) ==
    /\ run[r].pc = "storeComment"
    /\ \E dberr \in WriteErrs :
         LET p == post_id(r)
             w == insert_post_comment(processed_posts, post_comments,
                                      comment_data(r), dberr)
         IN /\ post_comments' = w.table
            /\ obs' = [Tag(r, p, {"wcomment"}) EXCEPT ![r].ups[p] =
                          @ \cup {<<comment_data(r).comment_id, run[r].rank>>}]
            /\ ev' = Event("comment", r, p, w.out, p \in DOMAIN processed_posts,
                            comment_data(r).comment_id \in DOMAIN post_comments,
                            w.table # post_comments, Some(comment_data(r)))
            /\ basis' = IF env.history /\ w.out = "ok"
                        THEN (comment_data(r).comment_id :>
                                 (IF comment_data(r).similarity_score # None
                                  THEN Some(AdviceText(r)) ELSE None)) @@ basis
                        ELSE basis
    /\ run' = [run EXCEPT ![r] =
                 IF @.rank < Len(@.top_comments)
                 THEN [@ EXCEPT !.pc = "verify", !.rank = @ + 1,
                                !.is_actual_advice = None, !.similarity_score = None]
                 ELSE [@ EXCEPT !.pc = "finalPost",
                                !.is_actual_advice = None, !.similarity_score = None]]
    /\ UNCHANGED <<call, processed_posts, llm_data, clock, env, advised>>

\* lines 137-145
FinalizePost(r) ==
    /\ run[r].pc = "finalPost"
    /\ \E dberr \in WriteErrs :
         LET p == post_id(r)
             w == insert_processed_post(processed_posts, run[r].post_data[1], dberr)
         IN /\ processed_posts' = w.table
            /\ obs' = Pace(Tag(r, p, {"wpost", "proc"}), r, p, "none", TRUE)
            /\ ev' = Event("post", r, p, w.out, p \in DOMAIN processed_posts,
                            p \in DOMAIN processed_posts,
                            w.table # processed_posts,
                            Some(PostRow(run[r].post_data[1])))
    /\ run' = [run EXCEPT ![r] = NextPost([@ EXCEPT !.processed_count = @ + 1])]
    /\ UNCHANGED <<call, llm_data, post_comments, clock, env, advised, basis>>

\* line 153: the longer delay after a caught exception has elapsed
ErrorDelay(r) ==
    /\ run[r].pc = "errDelay"
    /\ run' = [run EXCEPT ![r] = NextPost(@)]
    /\ obs' = Pace(Tag(r, post_id(r), {"longdelay"}), r, post_id(r), "none", TRUE)
    /\ ev' = NoEvent
    /\ UNCHANGED <<call, store, clock, env, advised, basis>>

InTry == {"check", "advise", "advised", "storeAdvice", "fetchComments",
          "verify", "storeComment", "finalPost"}

\* lines 147-149 and 155-160: KeyboardInterrupt inside the try block
Interrupt(r) ==
    /\ env.interrupts
    /\ run[r].pc \in InTry
    /\ run[r].idx <= Len(run[r].posts)
    /\ run' = [run EXCEPT ![r] = [@ EXCEPT !.pc = "done", !.conn = "closed",
                                           !.reported = TRUE, !.interrupted = TRUE]]
    /\ ev' = NoEvent
    /\ UNCHANGED <<call, store, clock, env, obs, advised, basis>>

\* KeyboardInterrupt during the sleep of line 153: raised inside the
\* except clause, so no handler of the try statement catches it
InterruptInHandler(r) ==
    /\ env.interrupts
    /\ run[r].pc = "errDelay"
    /\ run' = [run EXCEPT ![r] = [@ EXCEPT !.pc = "aborted", !.interrupted = TRUE]]
    /\ ev' = NoEvent
    /\ UNCHANGED <<call, store, clock, env, obs, advised, basis>>

\* lines 155-160: the loop is exhausted
Finish(r) ==
    /\ run[r].pc = "check"
    /\ run[r].idx > Len(run[r].posts)
    /\ run' = [run EXCEPT ![r] = [@ EXCEPT !.pc = "done", !.conn = "closed",
                                           !.reported = TRUE]]
    /\ ev' = NoEvent
    /\ UNCHANGED <<call, store, clock, env, obs, advised, basis>>

Next ==
    \E r \in Runs :
        \/ StartRun(r)
        \/ FetchPosts(r)
        \/ CheckProcessed(r)
        \/ GetAdvice(r)
        \/ AfterAdvice(r)
        \/ StoreAdvice(r)
        \/ GetTopComments(r)
        \/ VerifyComment(r)
        \/ StoreComment(r)
        \/ FinalizePost(r)
        \/ ErrorDelay(r)
        \/ Interrupt(r)
        \/ InterruptInHandler(r)
        \/ Finish(r)

\* the steps run_pipeline takes by itself once it has started: a sequential
\* program goes on to its next statement
Proceed(r) ==
    \/ FetchPosts(r)
    \/ CheckProcessed(r)
    \/ GetAdvice(r)
    \/ AfterAdvice(r)
    \/ StoreAdvice(r)
    \/ GetTopComments(r)
    \/ VerifyComment(r)
    \/ StoreComment(r)
    \/ FinalizePost(r)
    \/ ErrorDelay(r)
    \/ Finish(r)

\* ------------------------------------------------------------ environments
Sub(p, created) == [id |-> p, created_utc |-> created]
\* time.time() at the fetch, in hours, and creation times inside / outside
\* the recency window
Now == 100
Recent == Now - 1
Old == Now - RecencyWindow - 6

PlainComment(p, k, score, body) ==
    [id |-> <<p, k>>, body |-> body, score |-> score, stickied |-> FALSE,
     author |-> Some("u"), distinguished |-> None]

Ok(content) == [kind |-> "ok", content |-> content]
Failure(kind) == [kind |-> kind, content |-> <<>>]
Cos(v) == [kind |-> "ok", cos |-> v]
EncodeError == [kind |-> "error", cos |-> 0]

\* every kind of failure may happen; one execution at a time; two
\* submissions with at most one comment each
FreeEnv ==
    [runs |-> {1}, POST_LIMIT |-> 2, now |-> Now,
     inits |-> InitOutcomes,
     listings |-> {<<Sub("A", Recent), Sub("B", Recent)>>,
                   <<Sub("B", Recent), Sub("A", Old)>>,
                   <<Sub("A", Old)>>},
     versions |-> {1},
     generator |-> {Ok(<<"x">>), Ok(<<" ">>), Failure("timeout")},
     classifier |-> {Ok(<<"S", "i", "m">>), Ok(<<"t", "a", "l", "v", "e", "z">>),
                     Failure("api_error")},
     encodings |-> {Cos(4), EncodeError},
     forests |-> [p \in PostIds |->
                    {<<>>, <<PlainComment(p, 1, 1, <<"b">>)>>}],
     listErrs |-> BOOLEAN, fetchErrs |-> BOOLEAN, readErrs |-> BOOLEAN,
     writeErrs |-> BOOLEAN,
     raises |-> BOOLEAN, interrupts |-> TRUE,
     genFail |-> {}, genOk |-> {},
     history |-> FALSE]

\* the three-post scenario: the forum lists A, B, C; the generator fails for
\* B and succeeds for C; C has two qualifying comments; every write succeeds.
\* Reads, the classifier, the scorer, exceptions and interruption stay free.
ScenarioEnv ==
    [runs |-> {1}, POST_LIMIT |-> 3, now |-> Now,
     inits |-> {"ok"},
     listings |-> {<<Sub("A", Recent), Sub("B", Recent), Sub("C", Recent)>>},
     versions |-> {1},
     generator |-> {Ok(<<"x">>), Ok(<<" ">>), Failure("timeout")},
     classifier |-> {Ok(<<"S", "i", "m">>), Ok(<<"n", "a~", "o">>), Failure("api_error")},
     encodings |-> {Cos(4), EncodeError},
     forests |-> [p \in PostIds |->
                    IF p = "C"
                    THEN {<<PlainComment(p, 1, 2, <<"b">>), PlainComment(p, 2, 1, <<"b">>)>>,
                          <<PlainComment(p, 1, 1, <<"b">>), PlainComment(p, 2, 2, <<"b">>)>>}
                    ELSE {<<>>}],
     listErrs |-> {FALSE}, fetchErrs |-> {FALSE}, readErrs |-> BOOLEAN,
     writeErrs |-> {FALSE},
     raises |-> BOOLEAN, interrupts |-> TRUE,
     genFail |-> {"B"}, genOk |-> {"C"},
     history |-> FALSE]

\* ------------------------------------------------ direct adapter calls
\* the characters and the texts of the completions tried
Alphabet == {"S", "s", "i", "m", "N", "n", "a", "a~", "o", " ", "x"}
Texts == UNION {[1..n -> Alphabet] : n \in 0..MaxLen}

\* a call that has been made has done = TRUE and its result
ClassifierCalls ==
    {[fn |-> "verify_comment_advice", client |-> client, api |-> api,
      done |-> FALSE, result |-> None] :
        client \in BOOLEAN, api \in {Ok(c) : c \in Texts} \cup ApiFailures}

ScorerCalls ==
    {[fn |-> "calculate_similarity", similarity_model |-> similarity_model,
      text1 |-> t[1], text2 |-> t[2], enc |-> enc, done |-> FALSE, result |-> None] :
        similarity_model \in BOOLEAN, t \in Bodies \X Bodies, enc \in Encodings}

\* verify_comment_advice called with the client present or not and the
\* completion call returning a text or failing
CallClassifier ==
    /\ call.fn = "verify_comment_advice"
    /\ ~call.done
    /\ call' = [call EXCEPT !.done = TRUE,
                            !.result = verify_comment_advice(call.client, call.api)]
    /\ UNCHANGED <<store, clock, env, run, obs, advised, ev, basis>>

\* calculate_similarity called with the model loaded or not
CallScorer ==
    /\ call.fn = "calculate_similarity"
    /\ ~call.done
    /\ call' = [call EXCEPT !.done = TRUE,
                            !.result = calculate_similarity(call.similarity_model,
                                           call.text1, call.text2, call.enc)]
    /\ UNCHANGED <<store, clock, env, run, obs, advised, ev, basis>>

\* the comments a submission can carry: every reason the filter of
\* get_top_comments knows, and replies to the first top-level comment
CommentKinds == {"plain", "stickied", "noauthor", "deleted", "removed",
                 "moderator", "admin"}

\* a comment as PRAW presents it; parent_id is <<"t3", post>> for a reply to
\* the post and <<"t1", comment>> for a reply to a comment
MkComment(k, kind, score, parent_id, replies) ==
    [id |-> <<"A", k>>, score |-> score,
     body |-> IF kind = "deleted" THEN Deleted
              ELSE IF kind = "removed" THEN Removed ELSE <<"b">>,
     stickied |-> kind = "stickied",
     author |-> IF kind = "noauthor" THEN None ELSE Some("u"),
     distinguished |-> IF kind \in {"moderator", "admin"} THEN Some(kind) ELSE None,
     parent_id |-> parent_id, replies |-> replies]

\* t top-level comments of any kind and n plain replies under the first one
\* the comment forest of a submission: top-level comments given by kind and
\* score, and plain replies under the first of them given by score
Forest(submission) ==
    LET top == submission.top
        sc == submission.replies
    IN [i \in 1..Len(top) |->
          MkComment(i, top[i][1], top[i][2], <<"t3", "A">>,
                    IF i = 1
                    THEN [j \in 1..Len(sc) |->
                            MkComment(Len(top) + j, "plain", sc[j],
                                      <<"t1", <<"A", 1>>>>, <<>>)]
                    ELSE <<>>)]

\* kind and score of a top-level comment: a comment the filter drops has
\* the highest score, so that dropping it shows
CommentChoices ==
    {<<"plain", sc>> : sc \in Scores}
    \cup {<<kind, CHOOSE sc \in Scores : \A x \in Scores : x <= sc>> :
            kind \in CommentKinds \ {"plain"}}

Submissions ==
    {[top |-> <<>>, replies |-> <<>>]} \cup
    UNION {UNION {{[top |-> top, replies |-> sc] :
                      top \in [1..t -> CommentChoices],
                      sc \in [1..n -> Scores]} :
                     n \in 0..(MaxComments - t)} :
             t \in 1..MaxComments}

Limits == {1, 2, MAX_COMMENTS_TO_FETCH}

TopCommentsCalls ==
    {[fn |-> "get_top_comments", submission |-> submission, limit |-> limit,
      failed |-> failed, done |-> FALSE, result |-> <<>>] :
        submission \in Submissions,
        limit \in Limits, failed \in BOOLEAN}

\* the last instant inside the recency window
Edge == Now - RecencyWindow

Listings ==
    UNION {{[i \in 1..n |-> Sub(i, created[i])] :
               created \in [1..n -> {Recent, Edge, Old}]} : n \in 0..MaxListing}

SubredditPostsCalls ==
    {[fn |-> "get_subreddit_posts", all_posts |-> all_posts,
      limit |-> limit, t |-> Now, failed |-> failed,
      done |-> FALSE, result |-> <<>>] :
        all_posts \in Listings, limit \in {1, 2}, failed \in BOOLEAN}

\* get_top_comments called on a submission
CallTopComments ==
    /\ call.fn = "get_top_comments"
    /\ ~call.done
    /\ call' = [call EXCEPT !.done = TRUE,
                            !.result = get_top_comments(CommentsList(Forest(call.submission)),
                                                        call.limit, call.failed)]
    /\ UNCHANGED <<store, clock, env, run, obs, advised, ev, basis>>

\* get_subreddit_posts called on a listing of submissions
CallSubredditPosts ==
    /\ call.fn = "get_subreddit_posts"
    /\ ~call.done
    /\ call' = [call EXCEPT !.done = TRUE,
                            !.result = get_subreddit_posts(call.all_posts, call.limit,
                                                           call.t, call.failed)]
    /\ UNCHANGED <<store, clock, env, run, obs, advised, ev, basis>>

NextCalls == CallClassifier \/ CallScorer \/ CallTopComments \/ CallSubredditPosts

InitState(e, pp, ld, c) ==
    /\ processed_posts = pp
    /\ llm_data = ld
    /\ post_comments = <<>>
    /\ clock = 0
    /\ env = e
    /\ run = [r \in Runs |-> IdleRun]
    /\ obs = [r \in Runs |-> NoObs]
    /\ advised = DOMAIN pp
    /\ ev = NoEvent
    /\ call = c
    /\ basis = <<>>

Init == InitState(FreeEnv, <<>>, <<>>, NoCall)

Spec == Init /\ [][Next]_vars

\* one direct call, with each combination of arguments and outcomes
InitCalls ==
    \/ \E c \in ClassifierCalls \cup ScorerCalls : InitState(FreeEnv, <<>>, <<>>, c)
    \/ \E c \in TopCommentsCalls : InitState(FreeEnv, <<>>, <<>>, c)
    \/ \E c \in SubredditPostsCalls : InitState(FreeEnv, <<>>, <<>>, c)

SpecCalls == InitCalls /\ [][NextCalls]_vars

\* a batch of two posts with every failure of the loop body free: storage
\* errors, generator and classifier failures, a failed comment fetch,
\* exceptions and interruption
BatchEnv ==
    [FreeEnv EXCEPT !.inits = {"ok"},
                    !.listings = {<<Sub("A", Recent), Sub("B", Recent)>>},
                    !.generator = {Ok(<<"x">>), Failure("timeout")},
                    !.classifier = {Ok(<<"S", "i", "m">>), Failure("api_error")},
                    !.encodings = {Cos(4)},
                    !.listErrs = {FALSE}]

\* one post over several executions: its comments, the storage errors and
\* the exceptions are free, and the posts counted as processed without
\* comments are remembered from one execution to the next (env.history)
ZeroEnv ==
    [FreeEnv EXCEPT !.inits = {"ok"},
                    !.listings = {<<Sub("A", Recent)>>},
                    !.generator = {Ok(<<"x">>), Failure("timeout")},
                    !.classifier = {Ok(<<"S", "i", "m">>), Failure("api_error")},
                    !.encodings = {Cos(4)},
                    !.listErrs = {FALSE},
                    !.history = TRUE]

SpecZero == InitState(ZeroEnv, <<>>, <<>>, NoCall) /\ [][Next]_vars

\* the loop keeps taking its next step; starting an execution and
\* interrupting it are up to the operator
SpecBatch ==
    /\ InitState(BatchEnv, <<>>, <<>>, NoCall)
    /\ [][Next]_vars
    /\ \A r \in Runs : WF_vars(Proceed(r))

\* one post whose comment listing changes freely between executions; a
\* processed check that hits a storage error makes the post be processed again
CommentsEnv ==
    [runs |-> {1}, POST_LIMIT |-> 1, now |-> Now,
     inits |-> {"ok"},
     listings |-> {<<Sub("A", Recent)>>},
     versions |-> {1},
     generator |-> {Ok(<<"x">>)},
     classifier |-> {Ok(<<"S", "i", "m">>), Failure("api_error")},
     encodings |-> {Cos(4), EncodeError},
     forests |-> [p \in PostIds |->
                    {<<>>} \cup {<<PlainComment(p, 1, s1, b), PlainComment(p, 2, s2, <<"b">>)>> :
                                    s1 \in Scores, s2 \in Scores, b \in Bodies}],
     listErrs |-> {FALSE}, fetchErrs |-> {FALSE}, readErrs |-> BOOLEAN,
     writeErrs |-> {FALSE},
     raises |-> BOOLEAN, interrupts |-> TRUE,
     genFail |-> {}, genOk |-> {},
     history |-> FALSE]

SpecComments == InitState(CommentsEnv, <<>>, <<>>, NoCall) /\ [][Next]_vars

\* the same post, whose title and body may have been edited between two
\* executions
RewriteEnv == [CommentsEnv EXCEPT !.versions = Versions]

SpecRewrite == InitState(RewriteEnv, <<>>, <<>>, NoCall) /\ [][Next]_vars

\* two executions at the same time (two processes on the same database
\* file), both listing the same post; a write may hit "database is locked"
ConcurrentEnv ==
    [runs |-> Runs, POST_LIMIT |-> 1, now |-> Now,
     inits |-> {"ok"},
     listings |-> {<<Sub("A", Recent)>>},
     versions |-> Versions,
     generator |-> {Ok(<<"x">>), Ok(<<"y">>), Failure("timeout")},
     classifier |-> {Ok(<<"S", "i", "m">>)},
     encodings |-> {Cos(4)},
     forests |-> [p \in PostIds |-> {<<>>, <<PlainComment(p, 1, 1, <<"b">>)>>}],
     listErrs |-> {FALSE}, fetchErrs |-> {FALSE}, readErrs |-> {FALSE},
     writeErrs |-> BOOLEAN,
     raises |-> BOOLEAN, interrupts |-> TRUE,
     genFail |-> {}, genOk |-> {},
     history |-> FALSE]

SpecConcurrent == InitState(ConcurrentEnv, <<>>, <<>>, NoCall) /\ [][Next]_vars

\* two executions at the same time on one post with one comment; the advice
\* differs from call to call, the processed check may hit a storage error,
\* and the text each stored score was computed against is remembered
RaceEnv ==
    [ConcurrentEnv EXCEPT !.versions = {1},
                          !.readErrs = BOOLEAN,
                          !.history = TRUE]

SpecRace == InitState(RaceEnv, <<>>, <<>>, NoCall) /\ [][Next]_vars

\* post A was processed by an earlier execution that found no comments
InitScenario ==
    InitState(ScenarioEnv,
              "A" :> PostRow([post_id |-> "A", ver |-> 1]),
              "A" :> [input_prompt |-> Prompt([post_id |-> "A", ver |-> 1]),
                      llm_response |-> <<"x">>],
              NoCall)

SpecScenario == InitScenario /\ [][Next]_vars

\* ============================================================== properties
Tagged(r, p, t) == t \in obs[r].tags[p]
TaggedPosts(r, t) == {p \in PostIds : Tagged(r, p, t)}

\* the loop of execution r has gone on from post p to the next iteration
Left(r, p) ==
    \E i \in 1..Len(run[r].posts) : run[r].posts[i].id = p /\ i < run[r].idx

\* execution r is inside the loop body for post p
AtPost(r, p) ==
    /\ run[r].pc \in InTry \cup {"errDelay"}
    /\ run[r].idx <= Len(run[r].posts)
    /\ post_id(r) = p

\* key k has the same row, or no row, in tables t and t0
SameRow(t, t0, k) ==
    /\ k \in DOMAIN t <=> k \in DOMAIN t0
    /\ k \in DOMAIN t => t[k] = t0[k]

\* post p has the rows it had when execution r started
PostUntouched(r, p) ==
    /\ SameRow(processed_posts, obs[r].store0.pp, p)
    /\ SameRow(llm_data, obs[r].store0.ld, p)
    /\ \A k \in CommentNos : SameRow(post_comments, obs[r].store0.pcm, <<p, k>>)

\* each counter is the number of posts counted that way
CountersMatch(r) ==
    /\ run[r].skipped_count = Cardinality(TaggedPosts(r, "skip"))
    /\ run[r].error_count = Cardinality(TaggedPosts(r, "fail"))
    /\ run[r].processed_count = Cardinality(TaggedPosts(r, "proc"))

\* C1 (as stated): a visited post whose Post row was in the store when the
\* execution started is skipped: the only thing done for it is the skip,
\* counted once, no generator call is made and its rows stay as they were.
C1_SkipsStoredPost ==
    \A r \in Runs, p \in PostIds :
        (Tagged(r, p, "visit") /\ p \in DOMAIN obs[r].store0.pp)
        => /\ obs[r].tags[p] = {"visit", "skip"}
           /\ run[r].skipped_count = Cardinality(TaggedPosts(r, "skip"))
           /\ PostUntouched(r, p)

\* C1 (amended): the same, provided the processed check of that post did
\* not hit a storage error.
C1_SkipsStoredPostWhenRead ==
    \A r \in Runs, p \in PostIds :
        (Tagged(r, p, "visit") /\ p \in DOMAIN obs[r].store0.pp
            /\ ~Tagged(r, p, "rerr"))
        => /\ obs[r].tags[p] = {"visit", "skip"}
           /\ run[r].skipped_count = Cardinality(TaggedPosts(r, "skip"))
           /\ PostUntouched(r, p)

C1_Witness ==
    \E r \in Runs, p \in PostIds :
        /\ p \in DOMAIN obs[r].store0.pp
        /\ p \in DOMAIN obs[r].store0.ld
        /\ Tagged(r, p, "skip")
        /\ run[r].skipped_count = 1

NoOrphans ==
    /\ DOMAIN llm_data \subseteq DOMAIN processed_posts
    /\ \A c \in DOMAIN post_comments :
          post_comments[c].post_id \in DOMAIN processed_posts

\* C4: an advice or comment upsert for a post without a Post row fails (with
\* the constraint violation, unless the statement already failed with a
\* storage error) and leaves the table as it was; every advice row and every
\* comment row references a Post row.
C4_NoOrphans ==
    /\ NoOrphans
    /\ (ev.op \in {"advice", "comment"} /\ ~ev.parent)
       => (ev.out \in {"integrity", "error"} /\ ~ev.changed)
    /\ ev.out = "integrity" => (ev.op \in {"advice", "comment"} /\ ~ev.parent)

C4_Witness ==
    /\ ev.op = "comment"
    /\ ev.out = "integrity"
    /\ ~ev.parent
    /\ ev.post \notin DOMAIN processed_posts

\* C6: a post whose processing raised is counted failed exactly once, the
\* longer delay follows, and the loop goes on: an execution that was not
\* interrupted ends only after it has visited every post of the batch.
C6_FailureContained ==
    \A r \in Runs :
        /\ run[r].error_count = Cardinality(TaggedPosts(r, "fail"))
        /\ \A p \in PostIds :
              Tagged(r, p, "raise")
              => /\ Tagged(r, p, "fail")
                 /\ \/ run[r].pc = "errDelay" /\ AtPost(r, p)
                    \/ run[r].pc = "aborted" /\ run[r].interrupted
                    \/ Tagged(r, p, "longdelay") /\ Left(r, p)
        /\ (run[r].pc = "done" /\ ~run[r].interrupted /\ run[r].posts # <<>>)
           => /\ run[r].idx = Len(run[r].posts) + 1
              /\ \A i \in 1..Len(run[r].posts) : Tagged(r, run[r].posts[i].id, "visit")

C6_Witness ==
    \E r \in Runs :
        /\ Len(run[r].posts) = 2
        /\ Tagged(r, run[r].posts[1].id, "raise")
        /\ Tagged(r, run[r].posts[1].id, "wpost")
        /\ Tagged(r, run[r].posts[2].id, "visit")
        /\ run[r].error_count = 1

\* C7: when the generator fails for a post, the execution attempts no write
\* for it, makes no comment fetch, classifier or scorer call for it, counts
\* it failed exactly once and goes on to the next post.
C7_AdviceAllOrNothing ==
    \A r \in Runs, p \in PostIds :
        Tagged(r, p, "genfail")
        => /\ obs[r].tags[p] \subseteq {"visit", "rerr", "gen", "genfail", "fail"}
           /\ PostUntouched(r, p)
           /\ run[r].error_count = Cardinality(TaggedPosts(r, "fail"))
           /\ \/ run[r].pc = "advised" /\ AtPost(r, p)
              \/ run[r].interrupted /\ ~Left(r, p)
              \/ Tagged(r, p, "fail") /\ Left(r, p)

C7_Witness ==
    \E r \in Runs, p \in PostIds :
        /\ Tagged(r, p, "genfail")
        /\ Left(r, p)
        /\ run[r].error_count = 1
        /\ run[r].pc = "advise"

\* C8: a Post row exists iff some execution obtained advice for the post;
\* once the advice call has succeeded and the loop has gone on from the post,
\* its Post row is in the store.
C8_PostIffAdvised ==
    /\ DOMAIN processed_posts \subseteq advised
    /\ \A r \in Runs, p \in PostIds :
          (Tagged(r, p, "genok") /\ Left(r, p)) => p \in DOMAIN processed_posts

\* C9: between the processing of two posts and at the end of an execution
\* the posts with a Post row are the posts with an Advice row.
C9_AdviceOneToOne ==
    (\A r \in Runs : run[r].pc \in {"idle", "fetch", "check", "errDelay", "done", "aborted"})
    => DOMAIN processed_posts = DOMAIN llm_data

\* C10: the processed check answers true iff the Post row exists, except
\* that on a storage error it answers false: the post is then not skipped
\* and not counted failed by the check but goes on to the advice call.
C10_CheckFailsClosed ==
    ev.op = "check"
    => LET r == ev.run
           p == ev.post
       IN /\ ev.out = "ok" => (Tagged(r, p, "skip") <=> p \in DOMAIN processed_posts)
          /\ ev.out = "error"
             => /\ ~Tagged(r, p, "skip")
                /\ \/ run[r].pc = "advise" /\ AtPost(r, p) /\ ~Tagged(r, p, "fail")
                   \/ run[r].pc = "errDelay" /\ Tagged(r, p, "raise")

C10_Witness ==
    /\ ev.op = "check"
    /\ ev.out = "error"
    /\ ev.post \in DOMAIN processed_posts
    /\ run[ev.run].pc = "advise"

\* ------------------------------------------------- the three-post scenario
Ids(posts) == [i \in 1..Len(posts) |-> posts[i].id]
RunEnded(r) == run[r].pc \in {"done", "aborted"}
CommentsOf(pcm, p) == {c \in DOMAIN pcm : pcm[c].post_id = p}
Counts(r) == <<run[r].skipped_count, run[r].error_count, run[r].processed_count>>

\* rows added since execution r started: Post, Advice, Comment
RowsAdded(r) ==
    <<Cardinality(DOMAIN processed_posts) - Cardinality(DOMAIN obs[r].store0.pp),
      Cardinality(DOMAIN llm_data) - Cardinality(DOMAIN obs[r].store0.ld),
      Cardinality(DOMAIN post_comments) - Cardinality(DOMAIN obs[r].store0.pcm)>>

\* the premises of the scenario, for an execution that has ended
ScenarioRun(r) ==
    /\ RunEnded(r)
    /\ Ids(run[r].posts) = <<"A", "B", "C">>
    /\ "A" \in DOMAIN obs[r].store0.pp
    /\ Tagged(r, "B", "genfail")
    /\ Tagged(r, "C", "genok")

\* no read missed a row, nothing raised, nobody interrupted
Undisturbed(r) ==
    /\ ~run[r].interrupted
    /\ TaggedPosts(r, "rerr") = {}
    /\ TaggedPosts(r, "raise") = {}

RankRows(p, k) == {c \in CommentsOf(post_comments, p) : post_comments[c].comment_rank = k}

\* C2 (as stated): the scenario ends with skipped=1, failed=1, processed=1,
\* one Post row, one Advice row and two Comment rows added, the rank-1
\* comment with a similarity score and the rank-2 comment without.
C2_Scenario ==
    \A r \in Runs :
        (ScenarioRun(r) /\ Undisturbed(r))
        => /\ Counts(r) = <<1, 1, 1>>
           /\ RowsAdded(r) = <<1, 1, 2>>
           /\ \A c \in RankRows("C", 1) : post_comments[c].similarity_score # None
           /\ \A c \in RankRows("C", 2) : post_comments[c].similarity_score = None

\* C2 (amended): the same counts and rows, provided no processed check hit
\* a storage error, nothing raised and the execution was not interrupted;
\* the rank-1 comment has a score iff the advice text is not empty and the
\* scorer gave one.
C2_ScenarioUndisturbed ==
    \A r \in Runs :
        (ScenarioRun(r) /\ Undisturbed(r))
        => /\ Counts(r) = <<1, 1, 1>>
           /\ RowsAdded(r) = <<1, 1, 2>>
           /\ Cardinality(RankRows("C", 1)) = 1
           /\ Cardinality(RankRows("C", 2)) = 1
           /\ Tagged(r, "C", "score") <=> Truthy(llm_data["C"].llm_response)
           /\ \A c \in RankRows("C", 1) :
                 post_comments[c].similarity_score # None
                 <=> (Tagged(r, "C", "score") /\ ~Tagged(r, "C", "noscore"))
           /\ \A c \in RankRows("C", 2) : post_comments[c].similarity_score = None

C2_Witness ==
    \E r \in Runs :
        /\ ScenarioRun(r)
        /\ Undisturbed(r)
        /\ Counts(r) = <<1, 1, 1>>
        /\ \E c \in RankRows("C", 1) : post_comments[c].similarity_score = Some(4)

\* the premises of the second execution of the scenario: C was fully
\* committed before it started
ScenarioRerun(r) ==
    /\ RunEnded(r)
    /\ Ids(run[r].posts) = <<"A", "B", "C">>
    /\ "A" \in DOMAIN obs[r].store0.pp
    /\ "C" \in DOMAIN obs[r].store0.pp
    /\ "C" \in DOMAIN obs[r].store0.ld
    /\ Cardinality(CommentsOf(obs[r].store0.pcm, "C")) = 2
    /\ Tagged(r, "B", "genfail")

\* C3 (as stated): the second execution ends with skipped=1, failed=1,
\* processed=0, has written C's comments again, and the row counts are
\* unchanged.
C3_Rerun ==
    \A r \in Runs :
        (ScenarioRerun(r) /\ Undisturbed(r))
        => /\ Counts(r) = <<1, 1, 0>>
           /\ Tagged(r, "C", "wcomment")
           /\ RowsAdded(r) = <<0, 0, 0>>

\* C3 (amended): the second execution skips C as it skips A: skipped=2,
\* failed=1, processed=0, nothing is done for C and the store is unchanged.
C3_RerunSkipsBoth ==
    \A r \in Runs :
        (ScenarioRerun(r) /\ Undisturbed(r))
        => /\ Counts(r) = <<2, 1, 0>>
           /\ obs[r].tags["A"] = {"visit", "skip"}
           /\ obs[r].tags["C"] = {"visit", "skip"}
           /\ processed_posts = obs[r].store0.pp
           /\ llm_data = obs[r].store0.ld
           /\ post_comments = obs[r].store0.pcm

C3_Witness ==
    \E r \in Runs :
        /\ ScenarioRerun(r)
        /\ Undisturbed(r)
        /\ Counts(r) = <<2, 1, 0>>
        /\ clock = 2

\* ------------------------------------------------------ comment upserts
\* C5: a stored comment keeps its comment_rank and comment_body (and its
\* post) through every later write, whatever rank and body the written
\* record carries.
C5_RankImmutable ==
    [][\A c \in DOMAIN post_comments :
          /\ c \in DOMAIN post_comments'
          /\ post_comments'[c].comment_rank = post_comments[c].comment_rank
          /\ post_comments'[c].comment_body = post_comments[c].comment_body
          /\ post_comments'[c].post_id = post_comments[c].post_id]_vars

\* an upsert of an existing comment_id, carrying another rank and another
\* body, has just changed the stored row
C5_Witness ==
    /\ ev.op = "comment"
    /\ ev.out = "ok"
    /\ ev.existed
    /\ ev.changed
    /\ ev.cd[1].comment_rank # post_comments[ev.cd[1].comment_id].comment_rank
    /\ ev.cd[1].comment_body # post_comments[ev.cd[1].comment_id].comment_body

\* ----------------------------------------------------------- post upserts
\* C11: a Post row, once stored, stays in the store with every field as it
\* was written first, through every step of every execution (the second
\* post upsert of an execution and the upserts of later executions included).
C11_PostFirstWriteWins ==
    [][\A p \in DOMAIN processed_posts :
          /\ p \in DOMAIN processed_posts'
          /\ processed_posts'[p] = processed_posts[p]]_vars

\* a post upsert carrying other field values than the stored row has just
\* been issued for a post_id that had a row
C11_Witness ==
    /\ ev.op = "post"
    /\ ev.out = "exists"
    /\ ev.existed
    /\ ev.cd[1] # processed_posts[ev.post]

\* --------------------------------------------------------- advice upserts
\* C12: an advice upsert for a post with a Post row, unless it hits a storage
\* error, succeeds and leaves the Advice row of that post holding the prompt
\* and the response it carried, whether or not a row was there before.
C12_AdviceUpsertReplaces ==
    (ev.op = "advice" /\ ev.parent /\ ev.out # "error")
    => /\ ev.out = "ok"
       /\ ev.post \in DOMAIN llm_data
       /\ llm_data[ev.post] = ev.cd[1]

\* an advice upsert has just replaced a row holding another response
C12_Witness ==
    /\ ev.op = "advice"
    /\ ev.out = "ok"
    /\ ev.existed
    /\ ev.changed
    /\ llm_data[ev.post] = ev.cd[1]

\* ------------------------------------------------------ zero-comment post
\* C13: the step that finds no suitable comment for a post counts the post
\* as processed (processed + 1, failed and skipped unchanged), goes on to
\* the next post and leaves the three tables as they are: the rows of the
\* post stand and no comment row is written.
C13_ZeroCommentPost ==
    [][\A r \in Runs :
          (run[r].pc = "fetchComments" /\ run'[r].pc = "check")
          => /\ obs'[r].top[post_id(r)] = <<>>
             /\ run'[r].processed_count = run[r].processed_count + 1
             /\ run'[r].error_count = run[r].error_count
             /\ run'[r].skipped_count = run[r].skipped_count
             /\ run'[r].idx = run[r].idx + 1
             /\ "proc" \in obs'[r].tags[post_id(r)]
             /\ obs'[r].tags[post_id(r)] \cap {"fail", "wcomment", "verify"} = {}
             /\ store' = store]_vars

\* a post with its Post and Advice rows and no comment row was counted as
\* processed after an empty comment fetch
C13_Witness ==
    \E r \in Runs, p \in PostIds :
        /\ Tagged(r, p, "fetch")
        /\ obs[r].top[p] = <<>>
        /\ Left(r, p)
        /\ Tagged(r, p, "proc")
        /\ run[r].processed_count = 1
        /\ run[r].error_count = 0
        /\ p \in DOMAIN processed_posts
        /\ p \in DOMAIN llm_data
        /\ \A c \in DOMAIN post_comments : post_comments[c].post_id # p

\* ------------------------------------------------- field-level degradation
\* the upserts issued for post p are those of the fetched comments, each at
\* its rank
AllUpserted(r, p) ==
    obs[r].ups[p] = {<<obs[r].top[p][k], k>> : k \in 1..Len(obs[r].top[p])}

C15_ScoredAtRankOne ==
    \A r \in Runs :
        run[r].pc = "storeComment"
        => /\ run[r].rank = 1 <=> run[r].rank \in obs[r].scored[post_id(r)]
           /\ run[r].rank > 1 => run[r].similarity_score = None
           /\ obs[r].scored[post_id(r)] \subseteq {1}

\* ---------------------------------------------------------- initialization
\* C16: an execution whose initialization failed has ended without
\* requesting the post listing, without any adapter call or write for any
\* post, and with the store as it was.
C16_InitFatal ==
    \A r \in Runs :
        obs[r].init \notin {"none", "ok"}
        => /\ run[r].pc = "done"
           /\ ~obs[r].listed
           /\ run[r].posts = <<>>
           /\ \A p \in PostIds : obs[r].tags[p] = {}
           /\ processed_posts = obs[r].store0.pp
           /\ llm_data = obs[r].store0.ld
           /\ post_comments = obs[r].store0.pcm
           /\ run[r].conn # "open"

C16_Witness ==
    \E r \in Runs :
        /\ obs[r].init = "model"
        /\ run[r].pc = "done"
        /\ run[r].conn = "closed"

\* ------------------------------------------------------------ interruption
\* C17: an interrupted execution has ended with the connection closed and
\* the counters reported.
C17_CleanInterruption ==
    \A r \in Runs :
        run[r].interrupted
        => /\ run[r].pc = "done"
           /\ run[r].conn = "closed"
           /\ run[r].reported

\* -------------------------------------------------------- concurrent runs
\* C18: under every interleaving of two executions no advice or comment row
\* is without its Post row; a post upsert that finds a row leaves it as the
\* first insert wrote it, one that finds none stores what it carries; an
\* advice upsert that succeeds leaves the row holding what it carries (the
\* tables hold one row per key).
C18_ConcurrentRuns ==
    /\ NoOrphans
    /\ (ev.op = "post" /\ ev.out # "error")
       => /\ ev.post \in DOMAIN processed_posts
          /\ ev.existed => (ev.out = "exists" /\ ~ev.changed)
          /\ ~ev.existed => (ev.out = "ok" /\ processed_posts[ev.post] = ev.cd[1])
    /\ (ev.op = "advice" /\ ev.out = "ok")
       => (ev.parent /\ llm_data[ev.post] = ev.cd[1])
    /\ (ev.op = "advice" /\ ev.out # "ok") => ~ev.changed

\* while execution 1 is still working on the post, execution 2 has lost the
\* race for the Post row (which keeps the other title and body) and has
\* just replaced the advice execution 1 had stored
C18_Witness ==
    /\ ev.op = "advice"
    /\ ev.run = 2
    /\ ev.out = "ok"
    /\ ev.existed
    /\ ev.changed
    /\ run[1].pc \in InTry
    /\ Tagged(1, ev.post, "wadvice")
    /\ Tagged(2, ev.post, "wpost")
    /\ processed_posts[ev.post] # PostRow(run[2].post_data[1])
    /\ processed_posts[ev.post] = PostRow(run[1].post_data[1])

\* -------------------------------------------------------------- classifier
\* the position of the first character of s that is not white space
FirstNonSpace(s) ==
    IF \A i \in 1..Len(s) : IsSpace(s[i]) THEN Len(s) + 1
    ELSE CHOOSE i \in 1..Len(s) :
            ~IsSpace(s[i]) /\ \A k \in 1..(i - 1) : IsSpace(s[k])

\* s, without its leading white space and in lower case, starts with marker
StartsWithMarker(s, marker) ==
    LET i == FirstNonSpace(s)
    IN /\ i + Len(marker) - 1 <= Len(s)
       /\ \A k \in 1..Len(marker) : lower_ch(s[i + k - 1]) = marker[k]

\* C19: verify_comment_advice returns true iff the call succeeded and the
\* answer, trimmed and lower-cased, starts with the affirmative marker,
\* false iff it starts with the accented or the unaccented negative marker,
\* and unknown in every other case (a failed call, a missing client, any
\* other answer).
C19_ClassifierTotal ==
    (call.fn = "verify_comment_advice" /\ call.done)
    => LET answered == call.client /\ call.api.kind = "ok"
           yes == answered /\ StartsWithMarker(call.api.content, Sim)
           no == answered /\ (\/ StartsWithMarker(call.api.content, NaoAccented)
                              \/ StartsWithMarker(call.api.content, Nao))
       IN /\ call.result \in {Some(TRUE), Some(FALSE), None}
          /\ call.result = Some(TRUE) <=> yes
          /\ call.result = Some(FALSE) <=> no
          /\ call.result = None <=> (~yes /\ ~no)

\* an unaccented, capitalised negative answer behind a blank gave false
C19_Witness ==
    /\ call.fn = "verify_comment_advice"
    /\ call.done
    /\ call.client
    /\ call.api = Ok(<<" ", "N", "a", "o">>)
    /\ call.result = Some(FALSE)

\* ------------------------------------------------------------------ scorer
\* C20: with an empty input text calculate_similarity returns 0, whether or
\* not the model is loaded.
C20_EmptyInputZero ==
    (call.fn = "calculate_similarity" /\ call.done
        /\ (call.text1 = <<>> \/ call.text2 = <<>>))
    => call.result = Some(0)

\* ------------------------------------------------------------ top comments
\* the comments the selection is specified over: not stickied, not deleted
\* or removed, with an author, not distinguished as moderator or admin
Qualifies(c) ==
    /\ c.stickied = FALSE
    /\ c.body # Deleted /\ c.body # Removed
    /\ c.author # None
    /\ c.distinguished # Some("moderator") /\ c.distinguished # Some("admin")

\* comment i of cs comes before comment j in the stable descending order
Before(cs, i, j) ==
    \/ cs[i].score > cs[j].score
    \/ cs[i].score = cs[j].score /\ i < j

\* the first n qualifying comments of cs in that order
TopExpected(cs, n) ==
    LET I == {i \in 1..Len(cs) : Qualifies(cs[i])}
        pos(i) == 1 + Cardinality({j \in I : Before(cs, j, i)})
    IN [k \in 1..Min(n, Cardinality(I)) |-> cs[CHOOSE i \in I : pos(i) = k]]

\* C21: get_top_comments returns exactly the first max_count comments of the
\* stable score-descending order (ties in fetch order) of the qualifying
\* comments, so rank 1 has the highest score and there are at most
\* max_count ranks.
C21_TopCommentSelection ==
    (call.fn = "get_top_comments" /\ call.done /\ ~call.failed)
    => LET cs == CommentsList(Forest(call.submission))
           res == call.result
       IN /\ res = TopExpected(cs, call.limit)
          /\ Len(res) <= call.limit
          /\ res # <<>> =>
                \A i \in 1..Len(cs) : Qualifies(cs[i]) => cs[i].score <= res[1].score

\* of two qualifying comments of equal score the one fetched first was
\* returned, the other fell off the limit and a moderator comment was left out
C21_Witness ==
    /\ call.fn = "get_top_comments"
    /\ call.done
    /\ ~call.failed
    /\ call.limit = 1
    /\ LET cs == CommentsList(Forest(call.submission))
       IN /\ Len(cs) = 3
          /\ cs[2].distinguished = Some("moderator")
          /\ Qualifies(cs[3])
          /\ cs[1].score = cs[3].score
          /\ call.result = <<cs[1]>>

\* a reply to the post itself (praw: Comment.is_root)
is_root(c) == c.parent_id[1] = "t3"

\* C22: every comment get_top_comments returns is a top-level reply to the
\* post; a reply to another comment is never returned, whatever its score.
C22_TopLevelOnly ==
    (call.fn = "get_top_comments" /\ call.done)
    => \A k \in 1..Len(call.result) : is_root(call.result[k])

\* ------------------------------------------------------------ recent posts
\* the first n submissions, in listing order, created within the recency
\* window before t among the 3 * n newest
PostsExpected(all_posts, n, t) ==
    LET R == {i \in 1..Len(all_posts) :
                i <= 3 * n /\ t - all_posts[i].created_utc <= RecencyWindow}
        pos(i) == Cardinality({j \in R : j <= i})
    IN [k \in 1..Min(n, Cardinality(R)) |-> all_posts[CHOOSE i \in R : pos(i) = k]]

\* C23: get_subreddit_posts returns at most max_count posts, each created
\* within the last 24 hours: the first max_count, in listing order, of the
\* recent ones among the 3 * max_count newest fetched, and fewer when there
\* are fewer; on an adapter error it returns the empty list.
C23_RecentPostFetch ==
    (call.fn = "get_subreddit_posts" /\ call.done)
    => IF call.failed
       THEN call.result = <<>>
       ELSE /\ call.result = PostsExpected(call.all_posts, call.limit, call.t)
            /\ Len(call.result) <= call.limit
            /\ \A k \in 1..Len(call.result) :
                  call.t - call.result[k].created_utc <= RecencyWindow

\* of four submissions the newest was too old, the second, exactly 24 hours
\* old, was returned, and the recent fourth one was never fetched
C23_Witness ==
    /\ call.fn = "get_subreddit_posts"
    /\ call.done
    /\ ~call.failed
    /\ call.limit = 1
    /\ Len(call.all_posts) = 4
    /\ call.all_posts[1].created_utc = Old
    /\ call.all_posts[2].created_utc = Edge
    /\ call.all_posts[4].created_utc = Recent
    /\ call.result = <<call.all_posts[2]>>

\* ------------------------------------------------------- order of the writes
\* C24: when an Advice or Comment upsert is attempted, the Post upsert of the
\* same post was attempted before it and the Post row exists, whatever the
\* outcome of the store operations before.
C24_ParentBeforeChild ==
    ev.op \in {"advice", "comment"}
    => /\ Tagged(ev.run, ev.post, "wpost")
       /\ ev.parent

\* ------------------------------------------------------------------- skip
\* C25: when the processed check reports a post as processed, the step only
\* counts it as skipped and moves on: no generator, comment-fetch, classifier
\* or scorer call, no write, no pacing delay, and the store stays as it was.
C25_SkipDoesNoWork ==
    [][\A r \in Runs :
          (ev'.op = "check" /\ ev'.run = r /\ ev'.out = "ok" /\ ev'.existed)
          => /\ run'[r].skipped_count = run[r].skipped_count + 1
             /\ run'[r].error_count = run[r].error_count
             /\ run'[r].processed_count = run[r].processed_count
             /\ run'[r].idx = run[r].idx + 1
             /\ run'[r].pc = "check"
             /\ obs'[r].tags[ev'.post] = {"visit", "skip"}
             /\ obs'[r].slept = obs[r].slept
             /\ ~obs'[r].slept[ev'.post]
             /\ obs'[r].pending = obs[r].pending
             /\ store' = store]_vars

\* a stored post was skipped right after a post that took its delays
C25_Witness ==
    \E r \in Runs :
        /\ ev.op = "check" /\ ev.run = r /\ ev.out = "ok" /\ ev.existed
        /\ Tagged(r, ev.post, "skip")
        /\ ~obs[r].slept[ev.post]
        /\ run[r].idx = 3
        /\ obs[r].slept[run[r].posts[1].id]

\* ----------------------------------------------------------------- pacing
\* C26: every advice call, classification call and comment-fetch call is
\* followed by a delay before the next of these calls is issued, on the
\* success, advice-failure, zero-comment and exception paths alike.
C26_Pacing ==
    \A r \in Runs :
        /\ ~obs[r].b2b
        /\ ~obs[r].pending

\* one post went through the advice, comment-fetch and classification
\* calls, another one through an exception behind its comment fetch
C26_Witness ==
    \E r \in Runs, p \in PostIds, q \in PostIds :
        /\ Left(r, p) /\ Left(r, q)
        /\ {"gen", "fetch", "verify"} \subseteq obs[r].tags[p]
        /\ {"gen", "fetch", "raise", "longdelay"} \subseteq obs[r].tags[q]
        /\ obs[r].slept[p] /\ obs[r].slept[q]

\* ------------------------------------------------------ zero-comment posts
\* C27: a post that an execution counted as processed without qualifying
\* comments is skipped by every later execution whose processed check reads
\* the store, so no Comment upsert is ever made for it.
C27_ZeroCommentFinal ==
    \A r \in Runs :
        /\ (ev.op = "check" /\ ev.run = r /\ ev.out = "ok" /\ ev.post \in obs[r].zero)
           => Tagged(r, ev.post, "skip")
        /\ (ev.op = "comment" /\ ev.run = r /\ ev.post \in obs[r].zero)
           => Tagged(r, ev.post, "rerr")

\* ------------------------------------------------------------- connection
\* C28: a store connection that was opened is closed before the execution
\* ends, on initialization failure, empty fetch, normal completion and
\* interruption, and nothing touches the store once it is closed.
C28_ConnectionLifecycle ==
    \A r \in Runs :
        /\ RunEnded(r) => run[r].conn \in {"none", "closed"}
        /\ run[r].conn = "closed" => run[r].pc = "done"

\* --------------------------------------------------------------- counters
\* C30: every post the loop has left is counted in exactly one of the three
\* counters, once; an execution that ends without interruption has
\* processed + skipped + failed = number of fetched posts, an interrupted
\* one at most the number of posts visited.
C30_CounterPartition ==
    \A r \in Runs :
        LET sum == run[r].processed_count + run[r].skipped_count + run[r].error_count
            counted(q) == {t \in {"skip", "fail", "proc"} : Tagged(r, q, t)}
        IN /\ CountersMatch(r)
           /\ \A q \in PostIds :
                 /\ Cardinality(counted(q)) <= 1
                 /\ Left(r, q) => Cardinality(counted(q)) = 1
           /\ (run[r].pc = "done" /\ ~run[r].interrupted) => sum = Len(run[r].posts)
           /\ run[r].interrupted => sum <= Cardinality(TaggedPosts(r, "visit"))

\* an execution over two posts ended with one processed and one failed
C30_Witness ==
    \E r \in Runs :
        /\ run[r].pc = "done"
        /\ run[r].reported
        /\ ~run[r].interrupted
        /\ Len(run[r].posts) = 2
        /\ run[r].processed_count = 1
        /\ run[r].error_count = 1
        /\ run[r].skipped_count = 0

\* ------------------------------------------------------------ termination
\* the posts execution r has visited are the first ones of the fetched list,
\* up to the one the loop is at
VisitedInOrder(r) ==
    \A i \in 1..Len(run[r].posts) :
        /\ i < run[r].idx => Tagged(r, run[r].posts[i].id, "visit")
        /\ Tagged(r, run[r].posts[i].id, "visit") => i <= run[r].idx

\* execution r has gone through all fetched posts and reported its counters
Completed(r) ==
    /\ run[r].pc = "done"
    /\ run[r].reported
    /\ run[r].idx = Len(run[r].posts) + 1
    /\ \A i \in 1..Len(run[r].posts) : Tagged(r, run[r].posts[i].id, "visit")

\* C29: unless it is interrupted, run_pipeline visits the fetched posts one
\* after the other in fetch order, each once, and then terminates reporting
\* the counters, whatever storage, generator, classifier, scorer or
\* unexpected failures occur.
C29_BatchTermination ==
    /\ [](\A r \in Runs : VisitedInOrder(r))
    /\ [][\A r \in Runs :
            run'[r].posts = run[r].posts
            => run'[r].idx \in {run[r].idx, run[r].idx + 1}]_vars
    /\ \A r \in Runs :
          (run[r].pc = "check" /\ run[r].idx = 1)
          ~> (run[r].interrupted \/ Completed(r))

\* an execution ended after an exception at its first post and a generator
\* failure at its second
C29_Witness ==
    \E r \in Runs :
        /\ Completed(r)
        /\ ~run[r].interrupted
        /\ Len(run[r].posts) = 2
        /\ Tagged(r, run[r].posts[1].id, "raise")
        /\ Tagged(r, run[r].posts[2].id, "genfail")

\* ------------------------------------------------- similarity and stored rank
\* C31 (as stated): every Comment row with a non-null similarity_score has
\* stored comment_rank 1.
C31_SimilarityImpliesRankOne ==
    \A c \in DOMAIN post_comments :
        post_comments[c].similarity_score # None
        => post_comments[c].comment_rank = 1

\* C31 (amended): a step that leaves a new or changed Comment row with a
\* non-null similarity_score is an upsert of that comment carrying rank 1,
\* and a row that is new then has stored rank 1; the stored rank of a row
\* that existed stays what its first insert wrote.
C31_SimilarityWrittenAtRankOne ==
    [][\A c \in DOMAIN post_comments' :
          (/\ post_comments'[c].similarity_score # None
           /\ (c \notin DOMAIN post_comments \/ post_comments[c] # post_comments'[c]))
          => /\ ev'.op = "comment"
             /\ ev'.cd[1].comment_id = c
             /\ ev'.cd[1].comment_rank = 1
             /\ c \notin DOMAIN post_comments => post_comments'[c].comment_rank = 1
             /\ c \in DOMAIN post_comments
                => post_comments'[c].comment_rank = post_comments[c].comment_rank]_vars

\* a comment first stored at rank 2 was fetched again at rank 1 and its row
\* took the similarity score
C31_Witness ==
    /\ ev.op = "comment"
    /\ ev.out = "ok"
    /\ ev.existed
    /\ ev.changed
    /\ ev.cd[1].comment_rank = 1
    /\ ev.cd[1].similarity_score # None
    /\ post_comments[ev.cd[1].comment_id].similarity_score = ev.cd[1].similarity_score
    /\ post_comments[ev.cd[1].comment_id].comment_rank = 2

\* ------------------------------------------------------------ distinct ranks
\* the comment_rank values of the rows in rows are pairwise distinct
DistinctRanks(rows) ==
    \A c \in rows, d \in rows :
        c # d => post_comments[c].comment_rank # post_comments[d].comment_rank

\* C32 (as stated): the Comment rows of one post carry pairwise distinct
\* comment_rank values.
C32_DistinctRanks ==
    \A p \in PostIds : DistinctRanks(CommentsOf(post_comments, p))

\* C32 (amended): the Comment upserts one processing of a post issues carry
\* pairwise distinct ranks for pairwise distinct comments, and the rows of a
\* post that had no Comment row when the execution processing it started
\* carry pairwise distinct ranks.
C32_DistinctRanksPerProcessing ==
    \A r \in Runs, p \in PostIds :
        /\ \A u \in obs[r].ups[p], v \in obs[r].ups[p] : u[1] = v[1] <=> u[2] = v[2]
        /\ (Tagged(r, p, "visit") /\ CommentsOf(obs[r].store0.pcm, p) = {})
           => DistinctRanks(CommentsOf(post_comments, p))

\* a post without Comment rows was processed and has two rows
C32_Witness ==
    \E r \in Runs, p \in PostIds :
        /\ Left(r, p)
        /\ Tagged(r, p, "proc")
        /\ CommentsOf(obs[r].store0.pcm, p) = {}
        /\ Cardinality(obs[r].ups[p]) = 2
        /\ Cardinality(CommentsOf(post_comments, p)) = 2

\* ------------------------------------------------- advice behind the score
\* C33 (as stated): a non-null similarity_score stored on a Comment row was
\* computed against the response text its post's Advice row holds now.
C33_AdviceSimilarityConsistent ==
    \A c \in DOMAIN post_comments :
        post_comments[c].similarity_score # None
        => /\ post_comments[c].post_id \in DOMAIN llm_data
           /\ c \in DOMAIN basis
           /\ basis[c] = Some(llm_data[post_comments[c].post_id].llm_response)

\* C33 (amended): a non-null similarity_score a Comment upsert has stored
\* was computed against the advice text that the same processing of the post
\* obtained and passed to the Advice upsert before; every stored non-null
\* score has such a text behind it.
C33_ScoredAgainstOwnAdvice ==
    /\ (ev.op = "comment" /\ ev.out = "ok" /\ ev.cd[1].similarity_score # None)
       => /\ Tagged(ev.run, ev.post, "wadvice")
          /\ obs[ev.run].offered[ev.post] # None
          /\ basis[ev.cd[1].comment_id] = obs[ev.run].offered[ev.post]
    /\ \A c \in DOMAIN post_comments :
          post_comments[c].similarity_score # None
          => c \in DOMAIN basis /\ basis[c] # None

\* an execution stored a score computed against its own advice after the
\* other execution had replaced the Advice row with another text
C33_Witness ==
    /\ ev.op = "comment"
    /\ ev.out = "ok"
    /\ ev.cd[1].similarity_score # None
    /\ basis[ev.cd[1].comment_id] = Some(<<"x">>)
    /\ ev.post \in DOMAIN llm_data
    /\ llm_data[ev.post].llm_response = <<"y">>
    /\ \E q \in Runs : q # ev.run /\ Tagged(q, ev.post, "wadvice")

====
